---------------------------- MODULE Spec2Model ----------------------------
(***************************************************************************)
(* A model of scorebook's app.py: the daily score ledger (save_scores,     *)
(* add_subject, delete_subject) over the SQLite store behind the           *)
(* Flask-SQLAlchemy session.                                               *)
(*                                                                         *)
(* Strings are sequences of one-character strings, so that float(), int()  *)
(* and str.strip() are computed, not assumed.  Python's None and SQL NULL  *)
(* are the empty tuple; a present value x is the one-element tuple <<x>>.  *)
(***************************************************************************)
EXTENDS Integers, Sequences, FiniteSets, TLC

VARIABLES subjects, scores, last, req, base, pdf

vars == <<subjects, scores, last, req, base, pdf>>

-----------------------------------------------------------------------------
(* Bounds of the model.                                                    *)

\* Longest score_subject_ids list of one submission.
MaxBatch == 2

\* Largest primary key the scores table hands out before inserts stop.
MaxRowId == 3

\* The dates submissions are made for.
Dates == {1, 2}

\* The subject ids a submission can name and the registry can hand out.
SubjectIds == {1, 2, 3}

\* The two concurrent requests of ConcSpec.
Workers == {1, 2}

\* Most subjects of a report (RenderSpec).
MaxRows == 31

\* Longest note of the reports of two subjects (RenderSpec).
MaxNote == 85

-----------------------------------------------------------------------------
(* Optional values.                                                        *)

None == <<>>

Some(x) == <<x>>

IsNone(o) == o = <<>>

Val(o) == o[1]

-----------------------------------------------------------------------------
(* Python's str.strip(), int() and float() on the characters used here.    *)

Digits == {"0", "1", "2", "3", "4", "5", "6", "7", "8", "9"}

DigitVal(c) ==
    CASE c = "0" -> 0 [] c = "1" -> 1 [] c = "2" -> 2 [] c = "3" -> 3
      [] c = "4" -> 4 [] c = "5" -> 5 [] c = "6" -> 6 [] c = "7" -> 7
      [] c = "8" -> 8 [] c = "9" -> 9

IsSpace(c) == c = " "

RECURSIVE LStrip(_)
LStrip(s) == IF s # <<>> /\ IsSpace(Head(s)) THEN LStrip(Tail(s)) ELSE s

RECURSIVE RStrip(_)
RStrip(s) ==
    IF s # <<>> /\ IsSpace(s[Len(s)]) THEN RStrip(SubSeq(s, 1, Len(s) - 1)) ELSE s

\* str.strip(): leading and trailing whitespace removed.
Strip(s) == RStrip(LStrip(s))

AllDigits(s) == \A i \in 1..Len(s) : s[i] \in Digits

HasSign(s) == s # <<>> /\ Head(s) \in {"+", "-"}

Unsigned(s) == IF HasSign(s) THEN Tail(s) ELSE s

SignOf(s) == IF s # <<>> /\ Head(s) = "-" THEN -1 ELSE 1

RECURSIVE DigitsValue(_)
DigitsValue(s) ==
    IF s = <<>> THEN 0
    ELSE 10 * DigitsValue(SubSeq(s, 1, Len(s) - 1)) + DigitVal(s[Len(s)])

\* int(s) succeeds: optional whitespace, optional sign, one or more digits.
IsIntLiteral(s) ==
    LET b == Unsigned(Strip(s)) IN b # <<>> /\ AllDigits(b)

\* int(s), for s an int literal.
IntValue(s) == SignOf(Strip(s)) * DigitsValue(Unsigned(Strip(s)))

DotAt(s) == {i \in 1..Len(s) : s[i] = "."}

IntPart(s) == IF DotAt(s) = {} THEN s ELSE SubSeq(s, 1, (CHOOSE i \in DotAt(s) : TRUE) - 1)

FracPart(s) ==
    IF DotAt(s) = {} THEN <<>> ELSE SubSeq(s, (CHOOSE i \in DotAt(s) : TRUE) + 1, Len(s))

RECURSIVE DropZeros(_)
DropZeros(s) ==
    IF s # <<>> /\ s[Len(s)] = "0" THEN DropZeros(SubSeq(s, 1, Len(s) - 1)) ELSE s

IsDecimal(b) ==
    /\ Cardinality(DotAt(b)) <= 1
    /\ AllDigits(IntPart(b))
    /\ AllDigits(FracPart(b))
    /\ Len(IntPart(b)) + Len(FracPart(b)) >= 1

\* float(s) succeeds: a decimal number, "nan" or "inf", with an optional sign
\* and surrounding whitespace (exponents and capitals are not drawn here).
IsFloatLiteral(s) ==
    LET b == Unsigned(Strip(s))
    IN  \/ b = <<"n", "a", "n">>
        \/ b = <<"i", "n", "f">>
        \/ IsDecimal(b)

\* float(s), for s a float literal: m / 10^e, or nan, or +-inf.
FloatValue(s) ==
    LET b == Unsigned(Strip(s))
        f == DropZeros(FracPart(b))
    IN  IF b = <<"n", "a", "n">> THEN [cls |-> "nan", m |-> 0, e |-> 0]
        ELSE IF b = <<"i", "n", "f">> THEN [cls |-> "inf", m |-> SignOf(Strip(s)), e |-> 0]
        ELSE [cls |-> "num",
              m |-> SignOf(Strip(s)) * DigitsValue(IntPart(b) \o f),
              e |-> Len(f)]

-----------------------------------------------------------------------------
(* The form fields of one subject and their parsing (save_scores).         *)

\* The values Python left in score_f / rank_i / note_s.
NoVals == [score |-> None, rank |-> None, note |-> None]

NoErr == [exc |-> "", text |-> "", arg |-> <<>>]

ValueError(text, arg) == [exc |-> "ValueError", text |-> text, arg |-> arg]

\* request.form.get(key) in (None, ""): the key is missing or holds "".
Blank(field) == IsNone(field) \/ Val(field) = <<>>

\* score_f = float(score_val) if score_val not in (None, "") else None
ParseScore(field) ==
    IF Blank(field) THEN [ok |-> TRUE, err |-> NoErr, v |-> None]
    ELSE IF IsFloatLiteral(Val(field))
    THEN [ok |-> TRUE, err |-> NoErr, v |-> Some(FloatValue(Val(field)))]
    ELSE [ok |-> FALSE, v |-> None,
          err |-> ValueError("could not convert string to float", Val(field))]

\* rank_i = int(rank_val) if rank_val not in (None, "") else None
ParseRank(field) ==
    IF Blank(field) THEN [ok |-> TRUE, err |-> NoErr, v |-> None]
    ELSE IF IsIntLiteral(Val(field))
    THEN [ok |-> TRUE, err |-> NoErr, v |-> Some(IntValue(Val(field)))]
    ELSE [ok |-> FALSE, v |-> None,
          err |-> ValueError("invalid literal for int() with base 10", Val(field))]

\* NormalizeNote with the strip() lost.
NormalizeNoteNoStrip(field) == IF Blank(field) THEN None ELSE field

\* note_s = (note_val or "").strip() or None
NormalizeNote(field) ==
    LET t == Strip(IF IsNone(field) THEN <<>> ELSE Val(field))
    IN  IF t = <<>> THEN None ELSE Some(t)

\* Lines 122-124 in order: the score is parsed before the rank, and the
\* note is normalised only when both parsed.
ParsedFields(ps, pr, note) ==
    IF ~ps.ok THEN [ok |-> FALSE, err |-> ps.err, vals |-> NoVals]
    ELSE IF ~pr.ok THEN [ok |-> FALSE, err |-> pr.err, vals |-> NoVals]
    ELSE [ok |-> TRUE, err |-> NoErr,
          vals |-> [score |-> ps.v, rank |-> pr.v, note |-> NormalizeNote(note)]]

ParseEdit(edit) == ParsedFields(ParseScore(edit.score), ParseRank(edit.rank), edit.note)

\* (score_f is None) and (rank_i is None) and (note_s is None)
AllNone(vals) == IsNone(vals.score) /\ IsNone(vals.rank) /\ IsNone(vals.note)

-----------------------------------------------------------------------------
(* The submissions drawn.                                                  *)

\* No score[id], rank[id] or note[id] key for a listed subject id.
EditNoKeys == [score |-> None, rank |-> None, note |-> None]

\* score "", rank "", note "".
EditBlank == [score |-> Some(<<>>), rank |-> Some(<<>>), note |-> Some(<<>>)]

\* score "", rank "", note " ".
EditBlankWs == [score |-> Some(<<>>), rank |-> Some(<<>>), note |-> Some(<<" ">>)]

\* score "88", rank "2", no note key.
EditScoreRank == [score |-> Some(<<"8", "8">>), rank |-> Some(<<"2">>), note |-> None]

\* score "", rank "0", note " hi ".
EditRankNote ==
    [score |-> Some(<<>>), rank |-> Some(<<"0">>), note |-> Some(<<" ", "h", "i", " ">>)]

\* score "nan", rank "", note "".
EditNan == [score |-> Some(<<"n", "a", "n">>), rank |-> Some(<<>>), note |-> Some(<<>>)]

\* score "abc", rank "2", note "hi".
EditBadScore ==
    [score |-> Some(<<"a", "b", "c">>), rank |-> Some(<<"2">>), note |-> Some(<<"h", "i">>)]

\* score "88", rank "1.5", note "".
EditBadRank ==
    [score |-> Some(<<"8", "8">>), rank |-> Some(<<"1", ".", "5">>), note |-> Some(<<>>)]

Edits ==
    {EditNoKeys, EditBlank, EditBlankWs, EditScoreRank, EditRankNote, EditNan,
     EditBadScore, EditBadRank}

\* request.form.getlist("score_subject_ids"): the lists of at most n ids
\* out of sids, repeats included.
IdLists(sids, n) == UNION {[1..k -> sids] : k \in 0..n}

Listed(ids) == {ids[i] : i \in 1..Len(ids)}

\* float(), int() and strip() of every edit drawn, computed once.
Parsed == [e \in Edits |-> ParseEdit(e)]

\* The submissions for dates ds, id lists lists and fields from edits.  The
\* keys of a subject id that is not listed are never read: they are left out.
Batches(ds, lists, edits) ==
    {b \in [d : ds, ids : lists, form : [SubjectIds -> edits \cup {EditNoKeys}]] :
        \A s \in SubjectIds :
            IF s \in Listed(b.ids) THEN b.form[s] \in edits ELSE b.form[s] = EditNoKeys}

\* Spec: one date, subjects 1 and 2 in any order and number, every edit.
SpecBatches == Batches({1}, IdLists({1, 2}, MaxBatch), Edits)

\* AtomicSpec: one date and all three subjects, so that the third entry can
\* fail after the first was flushed.
AtomicEdits == {EditBlankWs, EditScoreRank, EditRankNote, EditBadScore, EditBadRank}

\* A submitted score or rank that is a non-empty string and no numeric literal.
InvalidEdit(e) ==
    \/ ~Blank(e.score) /\ ~IsFloatLiteral(Val(e.score))
    \/ ~Blank(e.rank) /\ ~IsIntLiteral(Val(e.rank))

\* The entries after the first invalid one are never read (the loop has
\* raised): one value is drawn for them.
AtomicBatches ==
    {b \in Batches({1}, {<<1, 2, 3>>}, AtomicEdits) :
        \A i, j \in SubjectIds :
            i < j /\ InvalidEdit(b.form[i]) => b.form[j] = EditBlankWs}

\* RegistrySpec: both dates, subjects 1 and 2, one value to record or clear.
RegistryEdits == {EditBlankWs, EditScoreRank}

RegistryBatches == Batches(Dates, IdLists({1, 2}, MaxBatch), RegistryEdits)

\* ConcSpec: one date, subjects 1 and 2, three valid edits.
ConcEdits == {EditBlankWs, EditScoreRank, EditRankNote}

ConcBatches == Batches({1}, IdLists({1, 2}, MaxBatch), ConcEdits)

\* The names posted to add_subject: " ", "a", " b".
NameInputs == {<<" ">>, <<"a">>, <<" ", "b">>}

-----------------------------------------------------------------------------
(* The scores table in SQLite.                                             *)

\* SQLite binds a NaN as NULL; every other float is stored as it is.
StoreFloat(o) == IF ~IsNone(o) /\ Val(o).cls = "nan" THEN None ELSE o

RowVals(r) == [score |-> r.score, rank |-> r.rank, note |-> r.note]

MkRow(id, d, sid, vals) ==
    [id |-> id, the_date |-> d, subject_id |-> sid,
     score |-> StoreFloat(vals.score), rank |-> vals.rank, note |-> vals.note]

RowsAt(db, d, sid) == {r \in db : r.the_date = d /\ r.subject_id = sid}

MaxId(db) == IF db = {} THEN 0 ELSE CHOOSE n \in {r.id : r \in db} : \A r \in db : r.id <= n

\* INTEGER PRIMARY KEY without AUTOINCREMENT: one more than the largest rowid.
NextRowId(db) == MaxId(db) + 1

\* PRAGMA foreign_keys is never switched on, so SQLite checks no foreign key.
ForeignKeysOn == FALSE

\* INSERT with uq_score_date_subject dropped: no constraint is checked.
InsertRowUnchecked(db, d, sid, vals) ==
    [ok |-> TRUE, err |-> NoErr, db |-> db \cup {MkRow(NextRowId(db), d, sid, vals)}]

\* INSERT INTO scores: uq_score_date_subject is checked, the foreign key to
\* subjects only under PRAGMA foreign_keys.
InsertRow(db, d, sid, vals) ==
    IF RowsAt(db, d, sid) # {} \/ (ForeignKeysOn /\ sid \notin {s.id : s \in subjects})
    THEN [ok |-> FALSE, db |-> db,
          err |-> [exc |-> "IntegrityError", text |-> "constraint failed", arg |-> <<>>]]
    ELSE [ok |-> TRUE, err |-> NoErr,
          db |-> db \cup {MkRow(NextRowId(db), d, sid, vals)}]

SetCols(r, cols, vals) ==
    [r EXCEPT !.score = IF "score" \in cols THEN StoreFloat(vals.score) ELSE @,
              !.rank = IF "rank" \in cols THEN vals.rank ELSE @,
              !.note = IF "note" \in cols THEN vals.note ELSE @]

\* UPDATE scores SET <changed columns> WHERE id = ?; the ORM raises
\* StaleDataError when no row matched.
UpdateRow(db, id, cols, vals) ==
    IF {r \in db : r.id = id} = {}
    THEN [ok |-> FALSE, db |-> db,
          err |-> [exc |-> "StaleDataError", text |-> "0 rows matched", arg |-> <<>>]]
    ELSE [ok |-> TRUE, err |-> NoErr,
          db |-> {IF r.id = id THEN SetCols(r, cols, vals) ELSE r : r \in db}]

\* DELETE FROM scores WHERE id = ?
DeleteRow(db, id) == {r \in db : r.id # id}

-----------------------------------------------------------------------------
(* The ORM session of one request: db.session.                             *)
(*   view   the table as this session's transaction sees it, once it wrote *)
(*   wrote  the session has flushed a write, so it holds SQLite's write    *)
(*          lock and an open transaction                                   *)
(*   objs   the identity map: the Score objects loaded or added, by id,    *)
(*          with their attribute values in memory                          *)
(*   pend   the one change not flushed yet (every query flushes first)     *)

NoPend ==
    [kind |-> "none", id |-> 0, the_date |-> 0, subject_id |-> 0, cols |-> {}, vals |-> NoVals]

NewSession == [view |-> {}, wrote |-> FALSE, objs |-> {}, pend |-> NoPend]

\* What the session reads: its own transaction once it wrote, else the
\* committed table (pysqlite begins no transaction for a SELECT).
Visible(sess, db) == IF sess.wrote THEN sess.view ELSE db

Forget(objs, id) == {o \in objs : o.id # id}

Remember(objs, id, vals) == Forget(objs, id) \cup {[id |-> id, vals |-> vals]}

\* The session after its pending INSERT: the new object joins the identity map.
FlushInsert(sess, cur, r) ==
    [ok |-> r.ok, err |-> r.err,
     sess |-> [view |-> r.db, wrote |-> TRUE, pend |-> NoPend,
               objs |-> Remember(sess.objs, NextRowId(cur), sess.pend.vals)]]

\* The session after its pending UPDATE.
FlushUpdate(sess, r) ==
    [ok |-> r.ok, err |-> r.err,
     sess |-> [sess EXCEPT !.view = r.db, !.wrote = TRUE, !.pend = NoPend]]

\* The session after its pending DELETE (a DELETE that matches no row only warns).
FlushDelete(sess, cur) ==
    [ok |-> TRUE, err |-> NoErr,
     sess |-> [view |-> DeleteRow(cur, sess.pend.id), wrote |-> TRUE, pend |-> NoPend,
               objs |-> Forget(sess.objs, sess.pend.id)]]

\* The pending change sent to the table as the session sees it.
FlushOn(sess, cur) ==
    CASE sess.pend.kind = "none" -> [ok |-> TRUE, err |-> NoErr, sess |-> sess]
      [] sess.pend.kind = "insert" ->
            FlushInsert(sess, cur, InsertRow(cur, sess.pend.the_date, sess.pend.subject_id,
                                             sess.pend.vals))
      [] sess.pend.kind = "update" ->
            FlushUpdate(sess, UpdateRow(cur, sess.pend.id, sess.pend.cols, sess.pend.vals))
      [] sess.pend.kind = "delete" -> FlushDelete(sess, cur)

\* session.flush(): the pending INSERT, UPDATE or DELETE is sent.
Flush(sess, db) == FlushOn(sess, Visible(sess, db))

\* The query with the date left out of its filter.
FirstRowAnyDate(cur, d, sid) ==
    IF {r \in cur : r.subject_id = sid} = {} THEN None
    ELSE Some(CHOOSE r \in cur : r.subject_id = sid
                                   /\ \A q \in cur : q.subject_id = sid => r.id <= q.id)

\* Score.query.filter_by(the_date=d, subject_id=sid).first(): the row of the
\* lowest rowid, or None.
FirstRow(cur, d, sid) ==
    IF RowsAt(cur, d, sid) = {} THEN None
    ELSE Some(CHOOSE r \in RowsAt(cur, d, sid) : \A q \in RowsAt(cur, d, sid) : r.id <= q.id)

\* The attribute values of the object the query returns: those in memory
\* when the identity map holds the row already, else the row's.
Loaded(objs, r) ==
    IF \E o \in objs : o.id = r.id THEN (CHOOSE o \in objs : o.id = r.id).vals
    ELSE RowVals(r)

\* An attribute set to v counts as changed unless v == old (nan == nan is False).
Changed(old, v) == old # v \/ (~IsNone(v) /\ Val(v).cls = "nan")

ChangedCols(old, vals) ==
    {c \in {"score", "rank", "note"} :
        CASE c = "score" -> Changed(old.score, vals.score)
          [] c = "rank" -> old.rank # vals.rank
          [] c = "note" -> old.note # vals.note}

\* Lines 134-136 on a row that exists: only the attributes that changed are
\* written, and none changed means no UPDATE.
Overwrite(sess, id, cols, vals) ==
    [sess EXCEPT
       !.objs = Remember(@, id, vals),
       !.pend = IF cols = {} THEN NoPend
                ELSE [NoPend EXCEPT !.kind = "update", !.id = id, !.cols = cols,
                                    !.vals = vals]]

\* Lines 127-136, row being what the query returned.
DecideRow(sess, row, d, sid, vals) ==
    IF AllNone(vals)
    THEN IF IsNone(row) THEN sess
         ELSE [sess EXCEPT !.pend = [NoPend EXCEPT !.kind = "delete", !.id = Val(row).id]]
    ELSE IF IsNone(row)
         THEN [sess EXCEPT !.pend = [NoPend EXCEPT !.kind = "insert", !.the_date = d,
                                                  !.subject_id = sid, !.vals = vals]]
         ELSE Overwrite(sess, Val(row).id,
                        ChangedCols(Loaded(sess.objs, Val(row)), vals), vals)

\* Lines 126-136 for one subject id, after the query's autoflush.
Decide(sess, cur, d, sid, vals) == DecideRow(sess, FirstRow(cur, d, sid), d, sid, vals)

\* The query and what follows it, f being the outcome of the autoflush.
AfterFlush(f, db, d, sid, vals) ==
    IF ~f.ok THEN [ok |-> FALSE, err |-> f.err, sess |-> f.sess]
    ELSE [ok |-> TRUE, err |-> NoErr,
          sess |-> Decide(f.sess, Visible(f.sess, db), d, sid, vals)]

\* Lines 122-136, p being the outcome of the parsing.
AfterParse(sess, db, d, sid, p) ==
    IF ~p.ok THEN [ok |-> FALSE, err |-> p.err, sess |-> sess]
    ELSE AfterFlush(Flush(sess, db), db, d, sid, p.vals)

\* One pass of the loop body, lines 117-136: parse, query (with its
\* autoflush), then delete, add or overwrite.
Iteration(sess, db, d, sid, edit) == AfterParse(sess, db, d, sid, Parsed[edit])

\* The loop of lines 116-136 from position i on, with no other request
\* running; at is the position of the entry that raised, 0 when none did.
RECURSIVE RunLoop(_, _, _, _, _, _)
RECURSIVE Continue(_, _, _, _, _, _)
RunLoop(sess, db, d, ids, form, i) ==
    IF i > Len(ids) THEN [ok |-> TRUE, err |-> NoErr, sess |-> sess, at |-> 0]
    ELSE Continue(Iteration(sess, db, d, ids[i], form[ids[i]]), db, d, ids, form, i)

Continue(r, db, d, ids, form, i) ==
    IF ~r.ok THEN [ok |-> FALSE, err |-> r.err, sess |-> r.sess, at |-> i]
    ELSE RunLoop(r.sess, db, d, ids, form, i + 1)

\* COMMIT after the flush f.
Committed(f, db) ==
    [ok |-> f.ok, err |-> f.err, sess |-> f.sess,
     db |-> IF f.ok THEN Visible(f.sess, db) ELSE db]

\* db.session.commit(), line 138: flush, then COMMIT.
Commit(sess, db) == Committed(Flush(sess, db), db)

\* Teardown with the rollback lost: what the session had flushed stays.
TeardownKeepsFlushed(ok, committed, db) == committed

\* What the table holds once the request is over: the committed rows, or,
\* when the handler raised, the rows as they were (the session is removed
\* at the end of the request and its open transaction rolled back).
Teardown(ok, committed, db) == IF ok THEN committed ELSE db

\* The outcome of the request, l being the loop's and c the commit's.
Outcome(l, c, db) ==
    [ok |-> l.ok /\ c.ok,
     err |-> IF ~l.ok THEN l.err ELSE c.err,
     at |-> l.at,
     touched |-> Visible(c.sess, db),
     db |-> Teardown(l.ok /\ c.ok, IF l.ok THEN c.db ELSE Visible(l.sess, db), db)]

AfterLoop(l, db) == Outcome(l, Commit(l.sess, db), db)

\* save_scores run alone on table db.
RunSave(db, d, ids, form) == AfterLoop(RunLoop(NewSession, db, d, ids, form, 1), db)

\* What the client receives: the redirect of line 140, or, the handler
\* catching nothing, the server error made from the exception that was
\* raised (its type, its message and the literal the message quotes).
Response(ok, err) ==
    IF ok THEN [status |-> "302 Found", exc |-> "", text |-> "", arg |-> <<>>]
    ELSE [status |-> "500 Internal Server Error", exc |-> err.exc, text |-> err.text,
          arg |-> err.arg]

-----------------------------------------------------------------------------
(* The state.                                                              *)
(*   subjects  the subjects table                                          *)
(*   scores    the committed scores table                                  *)
(*   last      the last request served and how it ended (n: the rows it    *)
(*             removed or changed)                                         *)
(*   req       the requests in flight (ConcSpec)                           *)
(*   base      the scores table when the running requests began (ConcSpec) *)
(*   pdf       the report being drawn by export_pdf (RenderSpec)           *)

NoForm == [s \in SubjectIds |-> EditNoKeys]

NoLast ==
    [op |-> "none", ok |-> TRUE, err |-> NoErr, at |-> 0, d |-> 0, ids |-> <<>>,
     form |-> NoForm, sid |-> 0, name |-> <<>>, n |-> 0]

\* No report requested: the canvas of export_pdf does not exist yet.
NoPdf == [pc |-> "idle", d |-> 0, rows |-> <<>>, i |-> 0, y |-> 0, page |-> <<>>, pages |-> <<>>]

Idle ==
    [pc |-> "idle", ok |-> TRUE, err |-> NoErr, d |-> 0, ids |-> <<>>, form |-> NoForm,
     i |-> 0, sess |-> NewSession]

\* init_db() on a new database: the seeded subjects (three of them here),
\* no score yet.
Init ==
    /\ subjects = {[id |-> 1, name |-> <<"a">>], [id |-> 2, name |-> <<"b">>],
                   [id |-> 3, name |-> <<"c">>]}
    /\ scores = {}
    /\ last = NoLast
    /\ req = [w \in Workers |-> Idle]
    /\ base = {}
    /\ pdf = NoPdf

-----------------------------------------------------------------------------
(* The handlers, each served alone (Spec).                                 *)

\* POST /scores/save: r is how save_scores ends on the table as it stands.
SaveScores(d, ids, form) ==
    \E r \in {RunSave(scores, d, ids, form)} :
        /\ \A x \in r.touched : x.id <= MaxRowId
        /\ scores' = r.db
        /\ last' = [NoLast EXCEPT !.op = "save", !.ok = r.ok, !.err = r.err, !.at = r.at,
                                  !.d = d, !.ids = ids, !.form = form,
                                  !.n = Cardinality({x \in scores : x \notin r.db})]
        /\ UNCHANGED <<subjects, req, base, pdf>>

SubjectIdsIn(subj) == {s.id : s \in subj}

NextSubjectId(subj) ==
    IF subj = {} THEN 1
    ELSE 1 + CHOOSE n \in SubjectIdsIn(subj) : \A m \in SubjectIdsIn(subj) : m <= n

\* The name is empty or taken: add_subject flashes an error and adds nothing.
Refused(name) == name = <<>> \/ \E s \in subjects : s.name = name

\* POST /subjects/add
AddSubject(raw) ==
    /\ subjects' = IF Refused(Strip(raw)) THEN subjects
                   ELSE subjects \cup {[id |-> NextSubjectId(subjects), name |-> Strip(raw)]}
    /\ Refused(Strip(raw)) \/ NextSubjectId(subjects) \in SubjectIds
    /\ last' = [NoLast EXCEPT !.op = "add", !.ok = ~Refused(Strip(raw)), !.name = raw]
    /\ UNCHANGED <<scores, req, base, pdf>>

\* The relationship without its cascade, the foreign key unchecked: the
\* subject's rows stay.
CascadeDeleteNone(db, sid) == db

\* session.delete(subj) with the backref's cascade="all, delete-orphan":
\* the subject's Score objects are loaded and deleted with it.
CascadeDelete(db, sid) == {r \in db : r.subject_id # sid}

\* Subject.query.get_or_404(sid) finds the subject.
Found(sid) == \E s \in subjects : s.id = sid

\* POST /subjects/<sid>/delete
DeleteSubject(sid) ==
    /\ subjects' = {s \in subjects : s.id # sid}
    /\ scores' = IF Found(sid) THEN CascadeDelete(scores, sid) ELSE scores
    /\ last' = [NoLast EXCEPT !.op = "delete", !.ok = Found(sid), !.sid = sid,
                              !.n = Cardinality(scores \ scores')]
    /\ UNCHANGED <<req, base, pdf>>

\* Every request is a submission for the one date.
Next == \E b \in SpecBatches : SaveScores(b.d, b.ids, b.form)

Spec == Init /\ [][Next]_vars

AtomicNext == \E b \in AtomicBatches : SaveScores(b.d, b.ids, b.form)

AtomicSpec == Init /\ [][AtomicNext]_vars

\* Submissions for both dates, and the subject registry's two handlers.
RegistryNext ==
    \/ \E b \in RegistryBatches : SaveScores(b.d, b.ids, b.form)
    \/ \E raw \in NameInputs : AddSubject(raw)
    \/ \E sid \in SubjectIds : DeleteSubject(sid)

RegistrySpec == Init /\ [][RegistryNext]_vars

-----------------------------------------------------------------------------
(* Two save_scores requests served at once (ConcSpec): each worker thread  *)
(* has its own session and its own SQLite connection.  A step is one pass  *)
(* of the loop or the commit; the statements of a pass are not interleaved *)
(* with a write of the other request, SQLite allowing one writer at a time.*)

Running(w) == req[w].pc = "loop"

\* The next flush is the session's first write: it takes SQLite's write lock.
NeedsLock(sess) == sess.pend.kind # "none" /\ ~sess.wrote

LockHeldByOther(w) == \E v \in Workers \ {w} : Running(v) /\ req[v].sess.wrote

\* The request is over: the response is sent and the session removed, what
\* it had not committed rolled back.
Ended(q, ok, err) == [q EXCEPT !.pc = "done", !.ok = ok, !.err = err, !.i = 0,
                               !.sess = NewSession]

Started(d, ids, form) ==
    [pc |-> "loop", ok |-> TRUE, err |-> NoErr, d |-> d, ids |-> ids, form |-> form,
     i |-> 1, sess |-> NewSession]

\* A request arrives at worker w.  A worker serves one request while the
\* other's is running; when none is running, base takes the table as it is
\* and the requests served before are forgotten.
Begin(w, d, ids, form) ==
    /\ ~Running(w)
    /\ IF \E v \in Workers \ {w} : Running(v)
       THEN /\ req[w].pc = "idle"
            /\ req' = [req EXCEPT ![w] = Started(d, ids, form)]
            /\ base' = base
       ELSE /\ req' = [v \in Workers |-> IF v = w THEN Started(d, ids, form) ELSE Idle]
            /\ base' = scores
    /\ UNCHANGED <<subjects, scores, last, pdf>>

\* One pass of the loop, lines 117-136, by worker w.  The pass waits while
\* its flush needs the write lock and the other request holds it.
Step(w) ==
    /\ Running(w) /\ req[w].i <= Len(req[w].ids)
    /\ ~(NeedsLock(req[w].sess) /\ LockHeldByOther(w))
    /\ \E r \in {Iteration(req[w].sess, scores, req[w].d, req[w].ids[req[w].i],
                           req[w].form[req[w].ids[req[w].i]])} :
          /\ \A x \in Visible(r.sess, scores) : x.id <= MaxRowId
          /\ req' = [req EXCEPT ![w] = IF r.ok THEN [@ EXCEPT !.i = @ + 1, !.sess = r.sess]
                                       ELSE Ended(@, FALSE, r.err)]
    /\ UNCHANGED <<subjects, scores, last, base, pdf>>

\* db.session.commit(), line 138, by worker w.
CommitStep(w) ==
    /\ Running(w) /\ req[w].i > Len(req[w].ids)
    /\ ~(NeedsLock(req[w].sess) /\ LockHeldByOther(w))
    /\ \E c \in {Commit(req[w].sess, scores)} :
          /\ \A x \in c.db : x.id <= MaxRowId
          /\ scores' = Teardown(c.ok, c.db, scores)
          /\ req' = [req EXCEPT ![w] = Ended(@, c.ok, c.err)]
    /\ UNCHANGED <<subjects, last, base, pdf>>

\* The write lock was not released within the connection's timeout:
\* sqlite3.OperationalError, database is locked.
LockTimeout(w) ==
    /\ Running(w) /\ NeedsLock(req[w].sess) /\ LockHeldByOther(w)
    /\ req' = [req EXCEPT ![w] = Ended(@, FALSE, [exc |-> "OperationalError",
                                                  text |-> "database is locked",
                                                  arg |-> <<>>])]
    /\ UNCHANGED <<subjects, scores, last, base, pdf>>

ConcNext ==
    \/ \E w \in Workers, b \in ConcBatches : Begin(w, b.d, b.ids, b.form)
    \/ \E w \in Workers : Step(w)
    \/ \E w \in Workers : CommitStep(w)
    \/ \E w \in Workers : LockTimeout(w)

ConcSpec == Init /\ [][ConcNext]_vars

-----------------------------------------------------------------------------
(* export_pdf: the report of one date on a reportlab canvas.  Lengths are  *)
(* in 1/127 point, in which a millimetre (72/25.4 points) and a point are  *)
(* both whole numbers.  A page is the sequence of its drawString calls.    *)

UnitsPerMm == 360

UnitsPerPt == 127

\* A4 is 297 mm high.
PageHeightMm == 297

\* height - 20 * mm and height - 30 * mm
TitleDropMm == 20

HeaderDropMm == 30

\* line_h = 8 * mm
LineMm == 8

\* if y < 20 * mm
MarginMm == 20

\* y -= (line_h - 2)
LineTrimPt == 2

\* max_chars = 40
MaxChars == 40

ColSubjectMm == 20

ColScoreMm == 60

ColRankMm == 85

ColNoteMm == 110

Mm(n) == n * UnitsPerMm

LineH == Mm(LineMm)

ContinuationH == LineH - LineTrimPt * UnitsPerPt

TitleY == Mm(PageHeightMm) - Mm(TitleDropMm)

HeaderY == Mm(PageHeightMm) - Mm(HeaderDropMm)

DigitChar(n) ==
    CASE n = 0 -> "0" [] n = 1 -> "1" [] n = 2 -> "2" [] n = 3 -> "3" [] n = 4 -> "4"
      [] n = 5 -> "5" [] n = 6 -> "6" [] n = 7 -> "7" [] n = 8 -> "8" [] n = 9 -> "9"

RECURSIVE NatStr(_)
NatStr(n) == IF n < 10 THEN <<DigitChar(n)>> ELSE NatStr(n \div 10) \o <<DigitChar(n % 10)>>

\* str(row.rank)
IntStr(n) == IF n < 0 THEN <<"-">> \o NatStr(-n) ELSE NatStr(n)

RECURSIVE ZeroPad(_, _)
ZeroPad(s, n) == IF Len(s) >= n THEN s ELSE ZeroPad(<<"0">> \o s, n)

\* The digits of m / 10^e: at least one before the point, e after it.
Decimal(ds, e) ==
    SubSeq(ds, 1, Len(ds) - e) \o <<".">>
      \o (IF e = 0 THEN <<"0">> ELSE SubSeq(ds, Len(ds) - e + 1, Len(ds)))

\* str(row.score): the shortest decimal, with ".0" for a whole number.
FloatStr(f) ==
    IF f.cls = "inf" THEN (IF f.m < 0 THEN <<"-">> ELSE <<>>) \o <<"i", "n", "f">>
    ELSE (IF f.m < 0 THEN <<"-">> ELSE <<>>)
           \o Decimal(ZeroPad(NatStr(IF f.m < 0 THEN -f.m ELSE f.m), f.e + 1), f.e)

\* The code points of the characters that names are compared by.
CharCode(c) ==
    CASE c \in Digits -> 48 + DigitVal(c)
      [] c = " " -> 32
      [] c = "a" -> 97
      [] c = "b" -> 98
      [] c = "c" -> 99

\* s < t as SQLite compares text: by code point, a proper prefix first.
RECURSIVE Less(_, _)
Less(s, t) ==
    IF t = <<>> THEN FALSE
    ELSE IF s = <<>> THEN TRUE
    ELSE IF Head(s) = Head(t) THEN Less(Tail(s), Tail(t))
    ELSE CharCode(Head(s)) < CharCode(Head(t))

\* The subject of the least name (names are unique).
FirstByName(subj) == CHOOSE x \in subj : \A y \in subj : ~Less(y.name, x.name)

\* Subject.query.order_by(Subject.name.asc()).all()
RECURSIVE ByName(_)
RECURSIVE ByNameAfter(_, _)
ByName(subj) == IF subj = {} THEN <<>> ELSE ByNameAfter(FirstByName(subj), subj)

ByNameAfter(x, subj) == <<x>> \o ByName(subj \ {x})

\* scores_map.get(subj.id), scores_map built from the rows of the date: the
\* row of the subject (one at most, by uq_score_date_subject), or None.
ScoreOf(db, d, sid) ==
    IF RowsAt(db, d, sid) = {} THEN None ELSE Some(CHOOSE r \in RowsAt(db, d, sid) : TRUE)

\* Lines 169-171 and 197: the subjects in order, each with its row of the date.
ReportRows(order, db, d) ==
    [p \in 1..Len(order) |-> [name |-> order[p].name, row |-> ScoreOf(db, d, order[p].id)]]

\* Lines 198-200.
ScoreStr(row) == IF IsNone(row) \/ IsNone(Val(row).score) THEN <<>> ELSE FloatStr(Val(Val(row).score))

RankStr(row) == IF IsNone(row) \/ IsNone(Val(row).rank) THEN <<>> ELSE IntStr(Val(Val(row).rank))

NoteStr(row) == IF IsNone(row) \/ IsNone(Val(row).note) THEN <<>> ELSE Val(Val(row).note)

\* c.drawString(x, y, text); kind names the statement that draws.
Draw(kind, xmm, y, text) == [kind |-> kind, x |-> Mm(xmm), y |-> y, text |-> text]

\* The title of the report of date d, and the mark of a continued page.
Title(d) == <<"s", "c", "o", "r", "e", "s", " ">> \o NatStr(d)

Continued == <<"(", "c", "o", "n", "t", ".", ")">>

\* Lines 183-192 and 204-211: the title line and the column header row.
HeaderOps(title) ==
    <<Draw("title", ColSubjectMm, TitleY, title),
      Draw("header", ColSubjectMm, HeaderY, <<"s", "u", "b", "j", "e", "c", "t">>),
      Draw("header", ColScoreMm, HeaderY, <<"s", "c", "o", "r", "e">>),
      Draw("header", ColRankMm, HeaderY, <<"r", "a", "n", "k">>),
      Draw("header", ColNoteMm, HeaderY, <<"n", "o", "t", "e">>)>>

\* Chunks with the slice one character short.
ChunksShort(note) ==
    [k \in 1..((Len(note) + MaxChars - 1) \div MaxChars) |->
        SubSeq(note, (k - 1) * MaxChars + 1,
               IF k * MaxChars - 1 < Len(note) THEN k * MaxChars - 1 ELSE Len(note))]

\* [note_str[i:i + max_chars] for i in range(0, len(note_str), max_chars)]
Chunks(note) ==
    [k \in 1..((Len(note) + MaxChars - 1) \div MaxChars) |->
        SubSeq(note, (k - 1) * MaxChars + 1,
               IF k * MaxChars < Len(note) THEN k * MaxChars ELSE Len(note))]

\* The note drawn in one line whatever its length.
NoteOpsOneLine(note, y) == <<Draw("note", ColNoteMm, y, note)>>

\* Lines 221-228: the note in one line, or its chunks one under the other.
NoteOps(note, y) ==
    IF Len(note) > MaxChars
    THEN [k \in 1..Len(Chunks(note)) |->
             Draw("note", ColNoteMm, y - (k - 1) * ContinuationH, Chunks(note)[k])]
    ELSE <<Draw("note", ColNoteMm, y, note)>>

\* RowOps drawing nothing for a subject without a record.
RowOpsSkipEmpty(name, row, y) ==
    IF IsNone(row) THEN <<>>
    ELSE <<Draw("label", ColSubjectMm, y, name),
           Draw("score", ColScoreMm, y, ScoreStr(row)),
           Draw("rank", ColRankMm, y, RankStr(row))>> \o NoteOps(NoteStr(row), y)

\* Lines 215-228: the cells of one row, its first line at y.
RowOps(name, row, y) ==
    <<Draw("label", ColSubjectMm, y, name),
      Draw("score", ColScoreMm, y, ScoreStr(row)),
      Draw("rank", ColRankMm, y, RankStr(row))>> \o NoteOps(NoteStr(row), y)

\* y after the row: down by every continuation line, then by line_h.
YAfter(note, y) ==
    (IF Len(note) > MaxChars THEN y - (Len(Chunks(note)) - 1) * ContinuationH ELSE y) - LineH

\* The page break with the cursor left where it was.
NeedsBreakNever(y) == FALSE

\* if y < 20 * mm
NeedsBreak(y) == y < Mm(MarginMm)

\* The new page without title and header.
NewPageOpsBare(d) == <<>>

\* Lines 204-211: what is drawn first on a new page.
NewPageOps(d) == HeaderOps(Title(d) \o Continued)

\* GET /export/pdf, lines 168-194: the tables are read, the canvas opened,
\* title and header drawn on the first page.
ExportPdf(d) ==
    /\ pdf.pc = "idle"
    /\ \E order \in {ByName(subjects)} :
          pdf' = [pc |-> "rows", d |-> d, rows |-> ReportRows(order, scores, d), i |-> 1,
                  y |-> HeaderY - LineH, page |-> HeaderOps(Title(d)), pages |-> <<>>]
    /\ UNCHANGED <<subjects, scores, last, req, base>>

\* One pass of the loop of lines 196-230, r being the subject's row, y0 the
\* cursor its first line is drawn at.
RowDrawn(r, y0) ==
    /\ pdf' = [pdf EXCEPT
                 !.i = @ + 1,
                 !.pages = IF NeedsBreak(pdf.y) THEN Append(@, pdf.page) ELSE @,
                 !.page = (IF NeedsBreak(pdf.y) THEN NewPageOps(pdf.d) ELSE @)
                            \o RowOps(r.name, r.row, y0),
                 !.y = YAfter(NoteStr(r.row), y0)]
    /\ UNCHANGED <<subjects, scores, last, req, base>>

DrawRow ==
    /\ pdf.pc = "rows" /\ pdf.i <= Len(pdf.rows)
    /\ RowDrawn(pdf.rows[pdf.i], IF NeedsBreak(pdf.y) THEN HeaderY - LineH ELSE pdf.y)

\* The document sent without the last showPage().
FinishPdfNoPage ==
    /\ pdf.pc = "rows" /\ pdf.i > Len(pdf.rows)
    /\ pdf' = [pdf EXCEPT !.pc = "done", !.page = <<>>]
    /\ UNCHANGED <<subjects, scores, last, req, base>>

\* Lines 232-236: the last page is closed and the document sent.
FinishPdf ==
    /\ pdf.pc = "rows" /\ pdf.i > Len(pdf.rows)
    /\ pdf' = [pdf EXCEPT !.pc = "done", !.pages = Append(@, pdf.page), !.page = <<>>]
    /\ UNCHANGED <<subjects, scores, last, req, base>>

\* The note of L characters that the reports carry.
NoteText(L) == [k \in 1..L |-> <<"a", "b", "c", "d", "e", "f", "g">>[((k - 1) % 7) + 1]]

\* The tables behind a report of n subjects: in name order the first w have
\* a record for date 1 with a note of L characters (no note when L = 0),
\* the others none; the first also has a record for date 2.  Names run
\* against the ids.
RenderSubjects(n) == {[id |-> k, name |-> NatStr(11 + n - k)] : k \in 1..n}

RenderScores(n, w, L) ==
    {[id |-> p, the_date |-> 1, subject_id |-> n + 1 - p,
      score |-> Some(FloatValue(<<"8", "8">>)), rank |-> Some(2),
      note |-> IF L = 0 THEN None ELSE Some(NoteText(L))] : p \in 1..w}
      \cup {[id |-> n + 1, the_date |-> 2, subject_id |-> n, score |-> None,
             rank |-> Some(1), note |-> None] : p \in 1..(IF n > 0 THEN 1 ELSE 0)}

\* The reports drawn: up to MaxRows subjects with notes of MaxNote
\* characters, and two subjects with a note of any length up to MaxNote.
RenderInputs ==
    {[n |-> n, w |-> w, L |-> MaxNote] : n \in 0..MaxRows, w \in 0..MaxRows}
      \cup {[n |-> 2, w |-> w, L |-> L] : w \in 1..2, L \in 0..MaxNote}

RenderInit ==
    /\ \E t \in {t \in RenderInputs : t.w <= t.n} :
          /\ subjects = RenderSubjects(t.n)
          /\ scores = RenderScores(t.n, t.w, t.L)
    /\ last = NoLast
    /\ req = [w \in Workers |-> Idle]
    /\ base = {}
    /\ pdf = NoPdf

RenderNext ==
    \/ \E d \in {1} : ExportPdf(d)
    \/ DrawRow
    \/ FinishPdf

RenderSpec == RenderInit /\ [][RenderNext]_vars

-----------------------------------------------------------------------------
(* Properties of the ledger.                                               *)

HasInvalid(ids, form) == \E i \in 1..Len(ids) : InvalidEdit(form[ids[i]])

\* C1: a submission in which some listed score or rank is a non-empty string
\* that is no numeric literal leaves both tables exactly as they were,
\* wherever the invalid entry stands and whatever was flushed before it.
C1_Atomicity ==
    [][(last'.op = "save" /\ HasInvalid(last'.ids, last'.form))
         => (scores' = scores /\ subjects' = subjects /\ ~last'.ok)]_vars

\* C1 happens: the third entry raised after the first entry's update had
\* been flushed and the second entry's delete was pending; both rows stand.
C1_Witness ==
    /\ last.op = "save" /\ ~last.ok /\ last.at = 3 /\ last.err.exc = "ValueError"
    /\ last.form[1] = EditRankNote /\ last.form[2] = EditBlankWs
    /\ \E r \in RowsAt(scores, last.d, 1) : r.rank = Some(2)
    /\ RowsAt(scores, last.d, 2) # {}

\* C3: no row of the scores table has score, rank and note all unset.
C3_NoEmptyRecord == \A r \in scores : ~AllNone(RowVals(r))

\* C5: a listed subject id with none of its three keys in the form is
\* skipped: the rows of (date, id) are after the request what they were before.
C5_SkipAbsentKeys ==
    [][\A s \in SubjectIds :
          (last'.op = "save" /\ s \in Listed(last'.ids) /\ last'.form[s] = EditNoKeys)
            => RowsAt(scores', last'.d, s) = RowsAt(scores, last'.d, s)]_vars

\* The values parsed from the fields submitted for subject s.
Submitted(l, s) == ParseEdit(l.form[s]).vals

Holds(r, v) == r.score = v.score /\ r.rank = v.rank /\ r.note = v.note

\* C6: after a successful submission, every listed subject with some parsed
\* field present has a row for (date, subject) whose score, rank and note are
\* exactly the parsed values, a field parsed absent being unset.
C6_FullOverwrite ==
    [][(last'.op = "save" /\ last'.ok)
         => \A s \in Listed(last'.ids) :
               ~AllNone(Submitted(last', s))
                 => \E r \in RowsAt(scores', last'.d, s) : Holds(r, Submitted(last', s))]_vars

\* C7: after a successful submission of one valid non-empty edit, the table
\* has exactly one row for the pair, it holds the submitted values, and
\* submitting the same edit again succeeds and leaves the table as it is.
C7_Idempotent ==
    [][(last'.op = "save" /\ last'.ok /\ Len(last'.ids) = 1
          /\ ~AllNone(Submitted(last', last'.ids[1])))
         => LET s == last'.ids[1]
                again == RunSave(scores', last'.d, last'.ids, last'.form)
            IN  /\ again.ok /\ again.db = scores'
                /\ Cardinality(RowsAt(scores', last'.d, s)) = 1
                /\ \A r \in RowsAt(scores', last'.d, s) : Holds(r, Submitted(last', s))]_vars

\* All three keys submitted, score and rank as "", the note as "" or blanks.
EmptySubmitted(e) ==
    /\ e.score = Some(<<>>) /\ e.rank = Some(<<>>)
    /\ ~IsNone(e.note) /\ \A i \in 1..Len(Val(e.note)) : IsSpace(Val(e.note)[i])

\* C8: a submission of empty fields succeeds, removes the rows of the pairs
\* it lists and changes nothing else (so it changes nothing when repeated);
\* in any successful submission a subject submitted empty is left without row.
C8_DeleteByEmptiness ==
    [][last'.op = "save"
         => /\ (Listed(last'.ids) # {}
                  /\ \A s \in Listed(last'.ids) : EmptySubmitted(last'.form[s]))
                 => /\ last'.ok
                    /\ scores' = {r \in scores : ~(r.the_date = last'.d
                                                    /\ r.subject_id \in Listed(last'.ids))}
            /\ \A s \in Listed(last'.ids) :
                 (last'.ok /\ EmptySubmitted(last'.form[s]))
                   => RowsAt(scores', last'.d, s) = {}]_vars

\* C8 happens: an empty submission (the note of blanks) for one pair removed
\* its row and left the other subject's row.
C8_Witness ==
    /\ last.op = "save" /\ last.ok /\ last.ids = <<1>> /\ last.form[1] = EditBlankWs
    /\ last.n = 1
    /\ RowsAt(scores, last.d, 1) = {}
    /\ RowsAt(scores, last.d, 2) # {}

\* C10: the rank of every row is unset or at least 1.
C10_RankPositive == \A r \in scores : IsNone(r.rank) \/ Val(r.rank) >= 1

-----------------------------------------------------------------------------
(* Properties of concurrent submissions and of the registry.               *)

\* No request is running.
Quiet == \A w \in Workers : ~Running(w)

\* The workers whose request committed since base was taken.
CommittedWorkers == {w \in Workers : req[w].pc = "done" /\ req[w].ok}

\* The orders in which the requests of S can be served one after the other.
Orders(S) == {o \in [1..Cardinality(S) -> S] : \A i, j \in DOMAIN o : o[i] = o[j] => i = j}

RECURSIVE Serial(_, _)
Serial(db, order) ==
    IF order = <<>> THEN db
    ELSE Serial(RunSave(db, req[Head(order)].d, req[Head(order)].ids,
                        req[Head(order)].form).db, Tail(order))

\* The records of a table, the surrogate key left out.
Content(db) ==
    {[the_date |-> r.the_date, subject_id |-> r.subject_id, score |-> r.score,
      rank |-> r.rank, note |-> r.note] : r \in db}

\* C2: once the overlapping requests are over, the table holds what serving
\* the committed ones one after the other, in some order, would have left.
C2_Serializable ==
    Quiet => \E o \in Orders(CommittedWorkers) : Content(scores) = Content(Serial(base, o))

\* C4: the table has at most one row per (date, subject).
C4_OnePerPair ==
    \A d \in Dates, s \in SubjectIds : Cardinality(RowsAt(scores, d, s)) <= 1

\* C4 happens: both requests found no row for the pair and added one; the
\* first committed, the second's INSERT was refused.
C4_Witness ==
    /\ base = {}
    /\ req[1].pc = "done" /\ req[1].ok /\ req[1].ids = <<1>>
    /\ req[2].pc = "done" /\ ~req[2].ok /\ req[2].ids = <<1>>
    /\ req[2].err.exc = "IntegrityError"
    /\ Cardinality(RowsAt(scores, 1, 1)) = 1

\* C9: when delete_subject succeeds, no row of the subject is left, on any
\* date, and the rows of every other subject are what they were.
C9_Cascade ==
    [][(last'.op = "delete" /\ last'.ok)
         => /\ {r \in scores' : r.subject_id = last'.sid} = {}
            /\ {r \in scores' : r.subject_id # last'.sid}
                 = {r \in scores : r.subject_id # last'.sid}]_vars

\* C9 happens: the deleted subject had rows on both dates, and another
\* subject's row is still there.
C9_Witness ==
    /\ last.op = "delete" /\ last.ok /\ last.n = 2
    /\ scores # {}
    /\ \A r \in scores : r.subject_id # last.sid

-----------------------------------------------------------------------------
(* Properties of the error outcome.                                        *)

\* The position in ids of the first entry with an invalid score or rank.
FirstInvalid(ids, form) ==
    CHOOSE i \in 1..Len(ids) :
        /\ InvalidEdit(form[ids[i]])
        /\ \A j \in 1..(i - 1) : ~InvalidEdit(form[ids[j]])

\* The subject id and the field a validation error has to name.
Offender(ids, form) ==
    [sid |-> ids[FirstInvalid(ids, form)],
     field |-> IF ~Blank(form[ids[FirstInvalid(ids, form)]].score)
                  /\ ~IsFloatLiteral(Val(form[ids[FirstInvalid(ids, form)]].score))
               THEN "score" ELSE "rank"]

\* C11: the outcome of a submission rejected for an invalid score or rank
\* identifies the offending subject id and field: any submission that gets
\* the same outcome on the same table has the same offender.
C11_ErrorIdentifies ==
    [][(last'.op = "save" /\ HasInvalid(last'.ids, last'.form))
         => \A b \in AtomicBatches :
               (HasInvalid(b.ids, b.form)
                  /\ Response(RunSave(scores, b.d, b.ids, b.form).ok,
                              RunSave(scores, b.d, b.ids, b.form).err)
                       = Response(last'.ok, last'.err))
                 => Offender(b.ids, b.form) = Offender(last'.ids, last'.form)]_vars

-----------------------------------------------------------------------------
(* Properties of the report.                                               *)

\* The pages of the report so far, the one being drawn last.
PagesSoFar == IF pdf.pc = "rows" THEN Append(pdf.pages, pdf.page) ELSE pdf.pages

RECURSIVE Flatten(_)
Flatten(pp) == IF pp = <<>> THEN <<>> ELSE Head(pp) \o Flatten(Tail(pp))

IsData(o) == o.kind \in {"label", "score", "rank", "note"}

\* The data cells drawn so far, in drawing order over all pages.
DataOps(pp) == SelectSeq(Flatten(pp), IsData)

\* The positions in ops of the first cell (the label) of each row.
RowStarts(ops) == SelectSeq([k \in 1..Len(ops) |-> k], LAMBDA k : ops[k].kind = "label")

\* The cells of the i-th row drawn: from its label up to the next label.
RowSpan(ops, starts, i) ==
    SubSeq(ops, starts[i], IF i < Len(starts) THEN starts[i + 1] - 1 ELSE Len(ops))

IsNoteOp(o) == o.kind = "note"

\* The note lines of a row, in drawing order.
NoteLines(span) == SelectSeq(span, IsNoteOp)

RECURSIVE ConcatText(_)
ConcatText(ops) == IF ops = <<>> THEN <<>> ELSE Head(ops).text \o ConcatText(Tail(ops))

\* The rows drawn so far: all of them once the document is sent.
RowsDone == IF pdf.pc = "done" THEN Len(pdf.rows) ELSE pdf.i - 1

\* The texts of the labels drawn, in drawing order.
LabelTexts(ops) == [i \in 1..Len(RowStarts(ops)) |-> ops[RowStarts(ops)[i]].text]

\* C12: the labels drawn over all pages are the names of the subjects in
\* name order, each once: as many rows are drawn as there are subjects, and
\* while the loop runs the rows drawn are the first ones of the list.
C12_Coverage ==
    /\ pdf.pc = "rows"
         => LabelTexts(DataOps(PagesSoFar)) = [i \in 1..RowsDone |-> pdf.rows[i].name]
    /\ pdf.pc = "done"
         => \A order \in {ByName(subjects)} :
               LabelTexts(DataOps(PagesSoFar))
                 = [i \in 1..Cardinality(subjects) |-> order[i].name]

\* C12 happens: a report of more than thirty subjects was sent on two pages
\* or more, its rows with and without a record.
C12_Witness ==
    /\ pdf.pc = "done" /\ Len(pdf.pages) >= 2 /\ Len(pdf.rows) > 30
    /\ \E i, j \in 1..Len(pdf.rows) : IsNone(pdf.rows[i].row) /\ ~IsNone(pdf.rows[j].row)

\* C13: every page starts with the title, then the four column headers, and
\* only data cells follow; the first page's title is plain, every later
\* page's carries the continuation mark.
C13_PageHead ==
    pdf.pc \in {"rows", "done"}
      => \A k \in 1..Len(PagesSoFar) :
            /\ Len(PagesSoFar[k]) >= 5
            /\ SubSeq(PagesSoFar[k], 1, 5)
                 = HeaderOps(IF k = 1 THEN Title(pdf.d) ELSE Title(pdf.d) \o Continued)
            /\ \A j \in 6..Len(PagesSoFar[k]) : IsData(PagesSoFar[k][j])

\* C13 happens: three pages were sent.
C13_Witness == pdf.pc = "done" /\ Len(pdf.pages) = 3

\* C14: the report of no subject is one page of title and headers.
C14_EmptyReport ==
    (pdf.pc = "done" /\ subjects = {}) => pdf.pages = <<HeaderOps(Title(pdf.d))>>

\* C14 happens: the report of no subject was sent.
C14_Witness == pdf.pc = "done" /\ subjects = {} /\ Len(pdf.pages) = 1

\* C15: the note lines of each row, joined in drawing order, are the note.
C15_NoteRoundTrip ==
    pdf.pc = "done"
      => \A ops \in {DataOps(pdf.pages)} :
            \A i \in 1..Len(pdf.rows) :
                ConcatText(NoteLines(RowSpan(ops, RowStarts(ops), i)))
                  = NoteStr(pdf.rows[i].row)

\* C15 happens: a note of 81 characters was drawn, in more lines than one.
C15_Witness ==
    /\ pdf.pc = "done" /\ Len(pdf.rows) = 2 /\ Len(NoteStr(pdf.rows[1].row)) = 81
    /\ Len(NoteLines(pdf.pages[1])) > 2

\* The least number of lines of at most MaxChars characters that hold L.
LinesFor(L) == CHOOSE n \in 0..L : n * MaxChars >= L /\ (n - 1) * MaxChars < L

\* C16: a note longer than MaxChars is drawn in ceil(L / MaxChars) lines of
\* the row, all in the note column, each of MaxChars characters but the
\* last, which has from 1 to MaxChars; the next row's cells come after.
C16_WrappedLines ==
    pdf.pc = "done"
      => \A ops \in {DataOps(pdf.pages)} :
            \A i \in 1..Len(pdf.rows) :
                Len(NoteStr(pdf.rows[i].row)) > MaxChars
                  => \A span \in {RowSpan(ops, RowStarts(ops), i)} :
                        /\ Len(span) = 3 + LinesFor(Len(NoteStr(pdf.rows[i].row)))
                        /\ \A k \in 4..Len(span) :
                              /\ span[k].kind = "note" /\ span[k].x = Mm(ColNoteMm)
                              /\ k < Len(span) => Len(span[k].text) = MaxChars
                              /\ Len(span[k].text) \in 1..MaxChars

\* C16 happens: a note of 85 characters in lines of 40, 40 and 5, the next
\* row after them.
C16_Witness ==
    /\ pdf.pc = "done" /\ Len(pdf.rows) = 2 /\ Len(NoteStr(pdf.rows[1].row)) = 85
    /\ Len(pdf.pages[1]) >= 14
    /\ Len(pdf.pages[1][9].text) = 40 /\ Len(pdf.pages[1][10].text) = 40
    /\ Len(pdf.pages[1][11].text) = 5 /\ pdf.pages[1][12].kind = "label"

\* C17: the first line of every row is drawn at or above the margin, and
\* every page holds whole rows: after its header each label is followed, on
\* the same page, by the score, the rank and all the note lines of its row.
C17_BreakBetweenRows ==
    pdf.pc = "done"
      => \A k \in 1..Len(pdf.pages) :
            \A ops \in {SelectSeq(pdf.pages[k], IsData)} :
                /\ ops # <<>> => ops[1].kind = "label"
                /\ \A i \in 1..Len(RowStarts(ops)) :
                      \A span \in {RowSpan(ops, RowStarts(ops), i)} :
                          /\ span[1].y >= Mm(MarginMm)
                          /\ Len(span) >= 4
                          /\ span[2].kind = "score" /\ span[3].kind = "rank"
                          /\ \E r \in 1..Len(pdf.rows) :
                                /\ pdf.rows[r].name = span[1].text
                                /\ ConcatText(NoteLines(span)) = NoteStr(pdf.rows[r].row)

\* C17 happens: the last row of a page has a note line below the margin,
\* and the next row starts the next page.
C17_Witness ==
    /\ pdf.pc = "done" /\ Len(pdf.pages) >= 2
    /\ pdf.pages[1][Len(pdf.pages[1])].kind = "note"
    /\ pdf.pages[1][Len(pdf.pages[1])].y < Mm(MarginMm)

-----------------------------------------------------------------------------
(* Properties of the ledger against the registry.                          *)

\* C18: every row of the scores table names a subject of the subjects table.
C18_Referential == \A r \in scores : r.subject_id \in SubjectIdsIn(subjects)

\* The rows a submission for date d listing ids has no business with.
Outside(db, d, ids) == {r \in db : ~(r.the_date = d /\ r.subject_id \in Listed(ids))}

\* C19: a successful submission leaves every row of another date, every row
\* of a subject it does not list, and the subjects table as they were.
C19_Frame ==
    [][(last'.op = "save" /\ last'.ok)
         => /\ Outside(scores', last'.d, last'.ids) = Outside(scores, last'.d, last'.ids)
            /\ subjects' = subjects]_vars

\* C19 happens: a submission for subject 1 alone removed its row of date 1;
\* the subject's row of date 2 and subject 2's row of date 1 are there.
C19_Witness ==
    /\ last.op = "save" /\ last.ok /\ last.d = 1 /\ last.ids = <<1>> /\ last.n = 1
    /\ RowsAt(scores, 1, 1) = {}
    /\ RowsAt(scores, 2, 1) # {}
    /\ RowsAt(scores, 1, 2) # {}

=============================================================================
